---------------------------- MODULE Spec2Model ----------------------------
(***************************************************************************)
(* VoiceCraft first-run installer (R2 archive installer, SetupManager).    *)
(*                                                                         *)
(* The model follows SetupManager.runSetup and the methods it calls:       *)
(* fetchManifest, downloadFileWithResume, verifyChecksum, extractZip and   *)
(* downloadAndInstallArchive, together with abort() and the files the      *)
(* installer keeps in the data directory (every archive's zip file, its    *)
(* .partial file and the .setup-complete marker).                          *)
(*                                                                         *)
(* A file is a sequence of bytes; NoFile stands for a path that does not   *)
(* exist.  The SHA-256 digest of a file is a string of 64 hex characters    *)
(* built from the file's content (a digest without collisions).            *)
(* Percentages are computed exactly, with                                  *)
(* Math.round as round-half-up on rationals.                               *)
(***************************************************************************)
EXTENDS Integers, Sequences, FiniteSets, TLC

\* ------------------------------------------------------------------ bounds

\* Declared size in bytes of every archive of the manifest.
ArchiveSize == 2
\* Redirect responses the server gives to one download before it stops redirecting.
MaxHops == 1
\* runSetup calls in one behaviour.
MaxRuns == 2

\* --------------------------------------------------------------- constants

SETUP_VERSION == 2

AllKeys ==
  {"python-core", "pytorch-nvidia-cu121", "pytorch-cpu", "packages", "models-turbo"}

\* A path at which no file exists (fs.existsSync is false).
NoFile == << -1 >>

\* ------------------------------------------------------------- the server

\* The content the manifest describes for an archive: size ArchiveSize, and
\* the digest of exactly this content.
Source(key) == [n \in 1..ArchiveSize |-> n]

\* manifest.archives[key].size and .sha256
DeclaredSize(key) == Len(Source(key))
\* Characters of a SHA-256 digest in hex, and of the part of a digest the
\* mismatch message shows.
DigestLen == 64
DigestShown == 12

\* hash.digest('hex'): lowercase hex.  The digest is modelled without
\* collisions: the hex digits of the bytes, filled up with "f".
HexDigits ==
  << "0", "1", "2", "3", "4", "5", "6", "7", "8", "9", "a", "b", "c", "d", "e", "f" >>
Sha256Hex(content) ==
  [i \in 1..DigestLen |->
     IF i <= Len(content) THEN HexDigits[(content[i] % 16) + 1] ELSE "f"]
DeclaredSha(key) == Sha256Hex(Source(key))

\* What the archive URL may hold when a request arrives: the archive itself,
\* the archive cut short, or the archive with a byte too many (a file that
\* is not the one the manifest describes).
ServedFiles(key) ==
  { Source(key),
    SubSeq(Source(key), 1, ArchiveSize - 1),
    Source(key) \o <<0>> }

\* The manifests the endpoint may publish: every archive, no CPU-only PyTorch
\* archive, or a manifest that lacks a required archive.
Manifests ==
  { AllKeys,
    AllKeys \ {"pytorch-cpu"},
    AllKeys \ {"models-turbo"} }

\* ------------------------------------------------------- progress events

Round(num, den) == (2 * num + den) \div (2 * den)

archiveStageMap(key) ==
  CASE key = "python-core"          -> [uiStage |-> "python",       pStart |-> 5,  pEnd |-> 25]
    [] key = "pytorch-nvidia-cu121" -> [uiStage |-> "dependencies", pStart |-> 25, pEnd |-> 55]
    [] key = "pytorch-cpu"          -> [uiStage |-> "dependencies", pStart |-> 25, pEnd |-> 55]
    [] key = "packages"             -> [uiStage |-> "dependencies", pStart |-> 55, pEnd |-> 70]
    [] key = "models-turbo"         -> [uiStage |-> "model",        pStart |-> 70, pEnd |-> 95]
    [] OTHER                        -> [uiStage |-> "dependencies", pStart |-> 25, pEnd |-> 70]

\* Math.round(progressStart + dlPct * (progressEnd - progressStart) * 0.7)
DownloadPct(pStart, pEnd, downloaded, total) ==
  Round(pStart * 10 * total + downloaded * (pEnd - pStart) * 7, 10 * total)

\* Math.round(progressStart + (progressEnd - progressStart) * 0.7)
VerifyPct(pStart, pEnd) == Round(pStart * 10 + (pEnd - pStart) * 7, 10)

\* Math.round(progressStart + (progressEnd - progressStart) * 0.8)
ExtractPct(pStart, pEnd) == Round(pStart * 10 + (pEnd - pStart) * 8, 10)

\* The summary kept of the progress events of the current run:
\*   last      percent of the last non-error event (-1: none yet),
\*   stage     stage of the last event,
\*   pct       percent of the last event,
\*   message   what the last event reports (for an 'error' event: the error),
\*   monotone  no non-error event carried a smaller percent than the one before,
\*   terminal  'complete' and 'error' events sent,
\*   late      an event was sent after a 'complete' or 'error' event.
NoProgress ==
  [last |-> -1, stage |-> "none", pct |-> -1, message |-> "none",
   monotone |-> TRUE, terminal |-> 0, late |-> FALSE]

sendProgress(p, stage, percent, message) ==
  [last     |-> IF stage = "error" THEN p.last ELSE percent,
   stage    |-> stage,
   pct      |-> percent,
   message  |-> message,
   monotone |-> p.monotone /\ (stage = "error" \/ percent >= p.last),
   terminal |-> IF stage \in {"complete", "error"} THEN p.terminal + 1 ELSE p.terminal,
   late     |-> p.late \/ p.terminal > 0]

\* ------------------------------------------------------------------ state

VARIABLES
  pc,           \* where runSetup stands; "idle", "complete", "error" between runs
  aborted,      \* this.aborted
  useGpu,       \* options.useGpu of the current run
  manifest,     \* keys of manifest.archives fetched by the current run
  archiveKeys,  \* the archive list built by the current run
  idx,          \* loop index i of runSetup, counted from 1
  partial,      \* key -> content of <dataDir>/<filename>.partial, or NoFile
  dest,         \* key -> content of <dataDir>/<filename>, or NoFile
  marker,       \* <<>> when .setup-complete is absent, else <<setupVersion>>
  req,          \* the download in hand (downloadFileWithResume's locals)
  prog,         \* summary of the progress events of the current run
  run,          \* what the current run has done so far
  prev,         \* the run before, when it failed on a checksum
  runs,         \* runSetup calls made
  launch,       \* main.js: what the did-finish-load handler decided
  procs,        \* main.js: the startBackend calls made, each with its process
  isQuitting,   \* main.js: app.isQuitting
  backendStatus, \* main.js: the latest backend-status event sent, 'loading' apart
  pending,      \* main.js: restart-backend requests in their 1 s wait
  sys,          \* a checkSystem call: its host, its position, its info object
  sum,          \* a verifyChecksum call: the file, the digest, the outcome
  unzip,        \* an extractZip call: the directory, the tools, the outcome
  mf,           \* a fetchManifest call: the responses, the outcome
  pip,          \* a runSetup call of the pip installer (src/electron/setup.js)
  dl,           \* a download followed request by request through its redirects
  wiz           \* the setup wizard: its step, its flags, the run it started

\* The state of the archive installer.
installerVars ==
  << pc, aborted, useGpu, manifest, archiveKeys, idx, partial, dest, marker,
     req, prog, run, prev, runs >>

\* The state of the process supervisor (main.js), the marker file apart.
supervisorVars == << launch, procs, isQuitting, backendStatus, pending >>

\* The calls of single methods followed on their own.
callVars == << sys, sum, unzip, mf, pip, dl, wiz >>

vars == << installerVars, supervisorVars, callVars >>

\* A method that has not been called.
NotCalled == [pc |-> "idle"]

NoReq ==
  [key |-> "none", startPartial |-> NoFile, range |-> 0, startByte |-> 0,
   network |-> FALSE, status |-> 0, served |-> <<>>, flags |-> "none",
   body |-> <<>>, downloaded |-> 0, hops |-> 0]

\* How a run failed: the step that threw, the archive in hand, and whether a
\* .partial file of that archive existed when its download started or was
\* opened for writing during the download.
NoFailure == [kind |-> "none", key |-> "none", hadPartial |-> FALSE]

\* failed: the archive whose checksum failed in the run before the current
\* one ("none" when that run did not fail on a checksum); installed: the
\* archives that run had extracted.
NoPrev == [failed |-> "none", installed |-> {}]

NewRun ==
  [dlDone |-> {}, verified |-> {}, extracted |-> {}, sound |-> {},
   started |-> <<>>, fixups |-> FALSE, wroteMarker |-> FALSE,
   failure |-> NoFailure, abortAt |-> -1, staleAbort |-> FALSE]
\* dlDone, verified, extracted: the archives whose download resolved, whose
\* checksum matched, that were extracted; sound: the archives extracted from
\* a zip file with the declared digest; started: the archives whose
\* iteration began, in order; abortAt: the number of iterations begun when
\* abort() was first called during the run (-1: not called); staleAbort:
\* this.aborted was set when runSetup was called.

Running == pc \notin {"idle", "complete", "error"}

Init ==
  /\ pc = "idle"
  /\ aborted = FALSE
  /\ useGpu = FALSE
  /\ manifest = {}
  /\ archiveKeys = <<>>
  /\ idx = 0
  /\ partial = [k \in AllKeys |-> NoFile]
  /\ dest = [k \in AllKeys |-> NoFile]
  /\ marker \in {<<>>, <<0>>}
  /\ req = NoReq
  /\ prog = NoProgress
  /\ run = NewRun
  /\ prev = NoPrev
  /\ runs = 0
  /\ launch = "none"
  /\ procs = <<>>
  /\ isQuitting = FALSE
  /\ backendStatus = "none"
  /\ pending = 0
  /\ sys = NotCalled
  /\ sum = NotCalled
  /\ unzip = NotCalled
  /\ mf = NotCalled
  /\ pip = NotCalled
  /\ dl = NotCalled
  /\ wiz = NotCalled

\* ------------------------------------------------------- the code's tests

\* runSetup, step 2: the archive list.
PyTorchKey(gpu, m) ==
  IF gpu THEN "pytorch-nvidia-cu121"
  ELSE IF "pytorch-cpu" \in m THEN "pytorch-cpu"
  ELSE "pytorch-nvidia-cu121"

\* The application packages taken before the PyTorch archive.
PackagesBeforePyTorch(gpu, m) ==
  << "python-core", "packages", PyTorchKey(gpu, m), "models-turbo" >>

BuildArchiveKeys(gpu, m) ==
  << "python-core", PyTorchKey(gpu, m), "packages", "models-turbo" >>

\* The validation loop left out.
NoKeyMissing(keys, m) == {}

\* for (const key of archiveKeys) if (!manifest.archives[key]) throw
MissingKeys(keys, m) == { keys[n] : n \in 1..Len(keys) } \ m

\* The loop bound taken one too small.
LoopStopsOneEarly(i, keys) == ~(i < Len(keys))

\* for (let i = 0; i < archiveKeys.length; i++), with idx = i + 1
LoopDone(i, keys) == ~(i <= Len(keys))

\* The flag left as it was at the start of a run.
AbortFlagKept(flag) == flag

\* runSetup: this.aborted = false
ClearAbort(flag) == FALSE

\* The flag left unread.
CancelNeverPolled(flag) == FALSE

\* if (this.aborted) throw new Error('Setup cancelled')
CancelRequested(flag) == flag

\* The .partial file left unread: every download starts from byte 0.
StartByteAlwaysZero(p) == 0

\* downloadFileWithResume: startByte from the .partial file
StartByteOf(p) == IF p = NoFile THEN 0 ELSE Len(p)

\* if (expectedSize && startByte >= expectedSize): rename and return
AlreadyComplete(p, expectedSize) ==
  p # NoFile /\ expectedSize # 0 /\ StartByteOf(p) >= expectedSize

\* startByte left as it was on a 200 answer.
StartByteKept(status, startByte) == startByte

\* if (res.statusCode === 200) startByte = 0
StartByteAfter(status, startByte) == IF status = 200 THEN 0 ELSE startByte

\* The .partial file always opened with 'w'.
WriteFlagsTruncate(startByte, status) == "w"

\* const flags = startByte > 0 && res.statusCode === 206 ? 'a' : 'w'
WriteFlags(startByte, status) ==
  IF startByte > 0 /\ status = 206 THEN "a" ELSE "w"

\* fs.createWriteStream(partialPath, { flags }): 'w' truncates or creates,
\* 'a' keeps what the file holds
OpenForWrite(flags, p) ==
  IF flags = "a" /\ p # NoFile THEN p ELSE <<>>

\* What the server sends as the body: the whole file on 200, the file from
\* the requested offset on 206.
ResponseBody(status, range, file) ==
  IF status = 206 THEN SubSeq(file, range + 1, Len(file)) ELSE file

\* A comparison that always succeeds.
ChecksumAlwaysOk(content, sha) == TRUE

\* verifyChecksum: actual === expectedSha256
ChecksumOk(content, sha) == Sha256Hex(content) = sha

\* The zip file left in place after the extraction.
ZipKeptAfterExtract(zip) == zip

\* downloadAndInstallArchive, clean up: try { fs.unlinkSync(zipPath) }
\* catch (e) {}, the deletion taken to succeed.
AfterExtract(zip) == NoFile

\* The zip file left in place on a mismatch.
ChecksumMismatchKeepsFile(zip) == zip

\* catch (checksumErr) { try { fs.unlinkSync(zipPath) } catch (e) {} throw }
OnChecksumMismatch(zip) == NoFile

\* The ways downloadFileWithResume rejects.
DownloadFailures == {"http-status", "request-error", "write-error", "response-error"}

\* A catch block that re-throws without the 'error' event.
ThrowWithoutEvent(r, p, kind, key) ==
  /\ pc' = "error"
  /\ prog' = p
  /\ run' = [r EXCEPT !.failure =
               [kind |-> kind, key |-> key,
                hadPartial |-> req.startPartial # NoFile \/ req.flags # "none"]]
  /\ req' = NoReq

\* The catch block of runSetup: the 'error' event, then the re-throw.  The
\* locals of the download in hand are gone with the rejected call.
Throw(r, p, kind, key) ==
  /\ pc' = "error"
  /\ prog' = sendProgress(p, "error", 0, kind)
  /\ run' = [r EXCEPT !.failure =
               [kind |-> kind, key |-> key,
                hadPartial |-> req.startPartial # NoFile \/ req.flags # "none"]]
  /\ req' = NoReq

CurKey == archiveKeys[idx]
Stage(key) == archiveStageMap(key)

\* ---------------------------------------------------------------- actions

\* runSetup(options) up to the manifest request.
RunSetup(gpu) ==
  /\ ~Running
  /\ runs < MaxRuns
  /\ runs' = runs + 1
  /\ useGpu' = gpu
  /\ aborted' = ClearAbort(aborted)
  /\ prev' = IF run.failure.kind = "checksum"
             THEN [failed |-> run.failure.key, installed |-> run.extracted]
             ELSE NoPrev
  /\ run' = [NewRun EXCEPT !.staleAbort = aborted]
  /\ prog' = sendProgress(NoProgress, "python", 2, "manifest")
  /\ pc' = "fetching-manifest"
  /\ manifest' = {}
  /\ archiveKeys' = <<>>
  /\ idx' = 0
  /\ req' = NoReq
  /\ UNCHANGED << partial, dest, marker >>
  /\ UNCHANGED << supervisorVars, callVars >>

\* fetchManifest rejects: endpoint unreachable, status other than 200, bad JSON.
FetchManifestFails ==
  /\ pc = "fetching-manifest"
  /\ Throw(run, prog, "manifest", "none")
  /\ UNCHANGED << aborted, useGpu, manifest, archiveKeys, idx, partial, dest,
                  marker, prev, runs >>
  /\ UNCHANGED << supervisorVars, callVars >>

\* fetchManifest resolves; the archive list is built and validated.
FetchManifestOk(m) ==
  /\ pc = "fetching-manifest"
  /\ manifest' = m
  /\ LET keys == BuildArchiveKeys(useGpu, m) IN
       /\ archiveKeys' = keys
       /\ IF MissingKeys(keys, m) # {}
          THEN /\ Throw(run, prog, "missing-archive", "none")
               /\ idx' = idx
          ELSE /\ pc' = "loop"
               /\ idx' = 1
               /\ UNCHANGED << prog, run, req >>
  /\ UNCHANGED << aborted, useGpu, partial, dest, marker, prev, runs >>
  /\ UNCHANGED << supervisorVars, callVars >>

\* Top of a loop iteration with the flag set.
Cancelled ==
  /\ pc = "loop"
  /\ ~LoopDone(idx, archiveKeys)
  /\ CancelRequested(aborted)
  /\ Throw(run, prog, "cancelled", "none")
  /\ UNCHANGED << aborted, useGpu, manifest, archiveKeys, idx, partial, dest,
                  marker, prev, runs >>
  /\ UNCHANGED << supervisorVars, callVars >>

\* Top of a loop iteration: downloadAndInstallArchive up to the request of
\* downloadFileWithResume, or up to its return when the .partial file is
\* already of the declared size.
ArchiveStart ==
  /\ pc = "loop"
  /\ ~LoopDone(idx, archiveKeys)
  /\ ~CancelRequested(aborted)
  /\ LET key == CurKey
         st == Stage(key)
         p == partial[key]
         r == [run EXCEPT !.started = Append(@, key)]
     IN
       /\ prog' = sendProgress(prog, st.uiStage, st.pStart, "start")
       /\ IF AlreadyComplete(p, DeclaredSize(key))
          THEN /\ dest' = [dest EXCEPT ![key] = p]
               /\ partial' = [partial EXCEPT ![key] = NoFile]
               /\ req' = [NoReq EXCEPT !.key = key, !.startPartial = p,
                                       !.startByte = StartByteOf(p)]
               /\ run' = [r EXCEPT !.dlDone = @ \cup {key}]
               /\ pc' = "verify"
          ELSE /\ req' = [NoReq EXCEPT !.key = key, !.startPartial = p,
                                       !.startByte = StartByteOf(p),
                                       !.range = StartByteOf(p),
                                       !.network = TRUE]
               /\ run' = r
               /\ pc' = "request"
               /\ UNCHANGED << partial, dest >>
  /\ UNCHANGED << aborted, useGpu, manifest, archiveKeys, idx, marker, prev, runs >>
  /\ UNCHANGED << supervisorVars, callVars >>

\* A 301 or 302 answer: makeRequest again, with the same headers.
Redirect ==
  /\ pc = "request"
  /\ req.hops < MaxHops
  /\ req' = [req EXCEPT !.hops = @ + 1]
  /\ UNCHANGED << pc, aborted, useGpu, manifest, archiveKeys, idx, partial,
                  dest, marker, prog, run, prev, runs >>
  /\ UNCHANGED << supervisorVars, callVars >>

\* A status other than 200, 206, 301, 302 (a 404, a 416): reject.
BadStatus ==
  /\ pc = "request"
  /\ Throw(run, prog, "http-status", req.key)
  /\ UNCHANGED << aborted, useGpu, manifest, archiveKeys, idx, partial, dest,
                  marker, prev, runs >>
  /\ UNCHANGED << supervisorVars, callVars >>

\* req 'error', or the 30 s timeout, before any response.
RequestError ==
  /\ pc = "request"
  /\ Throw(run, prog, "request-error", req.key)
  /\ UNCHANGED << aborted, useGpu, manifest, archiveKeys, idx, partial, dest,
                  marker, prev, runs >>
  /\ UNCHANGED << supervisorVars, callVars >>

\* A 200 or 206 answer: the .partial file is opened and the body piped to it.
\* A 206 is an answer to a Range header, and starts within the file served.
Response(status, file) ==
  /\ pc = "request"
  /\ status = 206 => (req.range > 0 /\ req.range < Len(file))
  /\ LET key == req.key
         sb == StartByteAfter(status, req.startByte)
         fl == WriteFlags(sb, status)
     IN
       /\ req' = [req EXCEPT !.status = status, !.served = file,
                             !.startByte = sb, !.flags = fl,
                             !.body = ResponseBody(status, req.range, file),
                             !.downloaded = sb]
       /\ partial' = [partial EXCEPT ![key] = OpenForWrite(fl, @)]
  /\ pc' = "streaming"
  /\ UNCHANGED << aborted, useGpu, manifest, archiveKeys, idx, dest, marker,
                  prog, run, prev, runs >>
  /\ UNCHANGED << supervisorVars, callVars >>

\* res 'data': a chunk of n bytes is written and reported.
Data(n) ==
  /\ pc = "streaming"
  /\ n \in 1..Len(req.body)
  /\ LET key == req.key
         st == Stage(key)
         got == req.downloaded + n
     IN
       /\ partial' = [partial EXCEPT ![key] = @ \o SubSeq(req.body, 1, n)]
       /\ req' = [req EXCEPT !.body = SubSeq(@, n + 1, Len(@)), !.downloaded = got]
       /\ prog' = sendProgress(prog, st.uiStage,
                     DownloadPct(st.pStart, st.pEnd, got, DeclaredSize(key)),
                     "downloading")
  /\ UNCHANGED << pc, aborted, useGpu, manifest, archiveKeys, idx, dest, marker,
                  run, prev, runs >>
  /\ UNCHANGED << supervisorVars, callVars >>

\* The body ends: file 'finish', the .partial file replaces the zip file,
\* downloadFileWithResume resolves.
StreamEnd ==
  /\ pc = "streaming"
  /\ req.body = <<>>
  /\ LET key == req.key IN
       /\ dest' = [dest EXCEPT ![key] = partial[key]]
       /\ partial' = [partial EXCEPT ![key] = NoFile]
       /\ run' = [run EXCEPT !.dlDone = @ \cup {key}]
  /\ pc' = "verify"
  /\ UNCHANGED << aborted, useGpu, manifest, archiveKeys, idx, marker, req,
                  prog, prev, runs >>
  /\ UNCHANGED << supervisorVars, callVars >>

\* file 'error' (the disk is full, the file cannot be written): file.close()
\* on the errored stream, reject.  The .partial file keeps what was written.
FileError ==
  /\ pc = "streaming"
  /\ Throw(run, prog, "write-error", req.key)
  /\ UNCHANGED << aborted, useGpu, manifest, archiveKeys, idx, partial, dest,
                  marker, prev, runs >>
  /\ UNCHANGED << supervisorVars, callVars >>

\* res 'error' (the socket fails while the body arrives, or the 30 s timeout
\* destroys the request): file.close(), reject.  fs.WriteStream's close()
\* ends the stream, so 'finish' is emitted and the 'finish' handler of
\* downloadFileWithResume runs on what was written so far: it replaces the
\* zip file by the .partial file (its resolve() comes after the reject and
\* has no effect).
ResponseError ==
  /\ pc = "streaming"
  /\ req.body # <<>>
  /\ Throw(run, prog, "response-error", req.key)
  /\ LET key == req.key IN
       /\ dest' = [dest EXCEPT ![key] = partial[key]]
       /\ partial' = [partial EXCEPT ![key] = NoFile]
  /\ UNCHANGED << aborted, useGpu, manifest, archiveKeys, idx, marker, prev, runs >>
  /\ UNCHANGED << supervisorVars, callVars >>

\* The 'verifying' event and verifyChecksum; on a mismatch the zip file is
\* deleted and the error thrown on.
Verify ==
  /\ pc = "verify"
  /\ LET key == req.key
         st == Stage(key)
         p == sendProgress(prog, st.uiStage, VerifyPct(st.pStart, st.pEnd), "verifying")
     IN
       IF ChecksumOk(dest[key], DeclaredSha(key))
       THEN /\ prog' = p
            /\ run' = [run EXCEPT !.verified = @ \cup {key}]
            /\ pc' = "extract"
            /\ dest' = dest
            /\ req' = req
       ELSE /\ dest' = [dest EXCEPT ![key] = OnChecksumMismatch(@)]
            /\ Throw(run, p, "checksum", key)
  /\ UNCHANGED << aborted, useGpu, manifest, archiveKeys, idx, partial, marker,
                  prev, runs >>
  /\ UNCHANGED << supervisorVars, callVars >>

\* The 'extracting' event and extractZip: tar.exe, and PowerShell when tar
\* fails.  With the archive extracted the zip file is deleted, the
\* 'installed' event sent and the loop index advanced.
Extract(tarOk, psOk) ==
  /\ pc = "extract"
  /\ LET key == req.key
         st == Stage(key)
         p == sendProgress(prog, st.uiStage, ExtractPct(st.pStart, st.pEnd), "extracting")
     IN
       IF tarOk \/ psOk
       THEN /\ run' = [run EXCEPT
                         !.extracted = @ \cup {key},
                         !.sound = IF Sha256Hex(dest[key]) = DeclaredSha(key)
                                   THEN @ \cup {key} ELSE @]
            /\ dest' = [dest EXCEPT ![key] = AfterExtract(@)]
            /\ prog' = sendProgress(p, st.uiStage, st.pEnd, "installed")
            /\ idx' = idx + 1
            /\ req' = NoReq
            /\ pc' = "loop"
       ELSE /\ Throw(run, p, "extract", key)
            /\ UNCHANGED << dest, idx >>
  /\ UNCHANGED << aborted, useGpu, manifest, archiveKeys, partial, marker,
                  prev, runs >>
  /\ UNCHANGED << supervisorVars, callVars >>

\* After the loop: the fixups, the marker, the 'complete' event.
Finalize ==
  /\ pc = "loop"
  /\ LoopDone(idx, archiveKeys)
  /\ marker' = << SETUP_VERSION >>
  /\ run' = [run EXCEPT !.fixups = TRUE, !.wroteMarker = TRUE]
  /\ prog' = sendProgress(sendProgress(prog, "model", 96, "finalizing"),
                           "complete", 100, "complete")
  /\ pc' = "complete"
  /\ UNCHANGED << aborted, useGpu, manifest, archiveKeys, idx, partial, dest,
                  req, prev, runs >>
  /\ UNCHANGED << supervisorVars, callVars >>

\* abort()
Abort ==
  /\ ~aborted
  /\ aborted' = TRUE
  /\ run' = IF Running /\ run.abortAt = -1
            THEN [run EXCEPT !.abortAt = Len(run.started)] ELSE run
  /\ UNCHANGED << pc, useGpu, manifest, archiveKeys, idx, partial, dest,
                  marker, req, prog, prev, runs >>
  /\ UNCHANGED << supervisorVars, callVars >>

\* The application is closed or killed while a run is in flight and started
\* again: the files stay as they are, the SetupManager is a new one.
Relaunch ==
  /\ Running
  /\ pc' = "idle"
  /\ aborted' = FALSE
  /\ req' = NoReq
  /\ prog' = NoProgress
  /\ run' = NewRun
  /\ manifest' = {}
  /\ archiveKeys' = <<>>
  /\ idx' = 0
  /\ UNCHANGED << useGpu, partial, dest, marker, prev, runs >>
  /\ UNCHANGED << supervisorVars, callVars >>

Next ==
  \/ \E gpu \in BOOLEAN : RunSetup(gpu)
  \/ FetchManifestFails
  \/ \E m \in Manifests : FetchManifestOk(m)
  \/ Cancelled
  \/ ArchiveStart
  \/ Redirect
  \/ BadStatus
  \/ RequestError
  \/ \E status \in {200, 206} : \E file \in ServedFiles(req.key) : Response(status, file)
  \/ \E n \in 1..(ArchiveSize + 1) : Data(n)
  \/ StreamEnd
  \/ FileError
  \/ ResponseError
  \/ Verify
  \/ \E tarOk \in BOOLEAN : \E psOk \in BOOLEAN : Extract(tarOk, psOk)
  \/ Finalize
  \/ Abort
  \/ Relaunch

Spec == Init /\ [][Next]_vars

\* ------------------------------------------------- the process supervisor
\* src/electron/main.js: the launch decision, startBackend with the exit
\* handler of the process it spawns, waitForBackend, before-quit and the
\* 'restart-backend' and 'setup-complete' requests of the UI.

\* startBackend calls in one behaviour.
MaxCalls == 5

\* const maxRestarts = 3
maxRestarts == 3

\* A marker file whose content is not JSON.
Unparsable == << -1 >>

\* What .setup-complete may be when the application is launched: absent,
\* not JSON, written without setupVersion, written by an older, by this and
\* by a newer installer (a marker is modelled by its setupVersion, 0 when
\* it has none).
MarkerFiles ==
  { <<>>, Unparsable, <<0>>, << SETUP_VERSION - 1 >>, << SETUP_VERSION >>,
    << SETUP_VERSION + 1 >> }

\* SetupManager.isSetupComplete of the archive installer
isSetupComplete(m) ==
  IF m = <<>> THEN FALSE
  ELSE IF m = Unparsable THEN FALSE
  ELSE ~(m[1] = 0 \/ m[1] < SETUP_VERSION)

\* main.js needsSetup: !fs.existsSync(setupFlagPath)
needsSetup(m) == ~(m # <<>>)

\* Every response resolves the poll.
AnyAnswerOk(statusCode) == statusCode # 0

\* waitForBackend: res.statusCode === 200 (0: no response, the request
\* failed or timed out)
HealthOk(statusCode) == statusCode = 200

\* pythonProcess.exitCode !== null: the code of an exit, or the negative
\* code of a failed spawn; a process ended by a signal keeps exitCode null.
ExitCodeSet(p) == p.exit \in {"zero", "nonzero", "spawn-error"}

\* The process is there to answer.
Alive(p) == p.exit = "none"

\* The exit code the handler is given: null for a signal.
\* code !== 0 && !app.isQuitting
CrashSeen(code, quitting) == code # "zero" /\ ~quitting

\* One startBackend call: who made it, its process, the restartCount of its
\* closure, its pending restart timer and its waitForBackend loop (first:
\* no health request of the loop has ended yet; answer: the status code
\* that resolved it).  The restart timer drops the promise of the call it
\* makes, and the loop of that call does nothing but send 'loading' events:
\* it is not followed.
NewCall(by) ==
  [by |-> by, exit |-> "none", restartCount |-> 0, timer |-> FALSE,
   wait |-> IF by = "auto" THEN "dropped" ELSE "check",
   first |-> TRUE, answer |-> 0]

\* A process that has exited and whose restart timer is not pending has no
\* handler left to run; once another process has taken its place in
\* pythonProcess its exit code and its restartCount can no longer be read.
Replaced(ps) ==
  [i \in 1..Len(ps) |->
     IF ps[i].exit # "none" /\ ~ps[i].timer
     THEN [ps[i] EXCEPT !.exit = "replaced", !.restartCount = 0]
     ELSE ps[i]]

\* startBackend: the new process becomes pythonProcess.
startBackend(ps, by) == Append(Replaced(ps), NewCall(by))

\* The global pythonProcess: the process of the latest startBackend call.
pythonProcess == procs[Len(procs)]

InitSupervisor ==
  /\ pc = "idle"
  /\ aborted = FALSE
  /\ useGpu = FALSE
  /\ manifest = {}
  /\ archiveKeys = <<>>
  /\ idx = 0
  /\ partial = [k \in AllKeys |-> NoFile]
  /\ dest = [k \in AllKeys |-> NoFile]
  /\ marker \in MarkerFiles
  /\ req = NoReq
  /\ prog = NoProgress
  /\ run = NewRun
  /\ prev = NoPrev
  /\ runs = 0
  /\ launch = "none"
  /\ procs = <<>>
  /\ isQuitting = FALSE
  /\ backendStatus = "none"
  /\ pending = 0
  /\ sys = NotCalled
  /\ sum = NotCalled
  /\ unzip = NotCalled
  /\ mf = NotCalled
  /\ pip = NotCalled
  /\ dl = NotCalled
  /\ wiz = NotCalled

\* did-finish-load: the wizard is shown, or the backend is started.
Launch ==
  /\ launch = "none"
  /\ IF needsSetup(marker)
     THEN /\ launch' = "setup"
          /\ procs' = procs
     ELSE /\ launch' = "server"
          /\ procs' = startBackend(procs, "launch")
  /\ UNCHANGED << isQuitting, backendStatus, pending, installerVars, callVars >>

\* 'setup-complete' from the wizard: startBackend.
SetupCompleteIpc ==
  /\ launch = "setup"
  /\ procs = <<>>
  /\ procs' = startBackend(procs, "setup")
  /\ UNCHANGED << launch, isQuitting, backendStatus, pending, installerVars, callVars >>

\* spawn fails: the 'error' event, exitCode negative, no 'exit' event.  It
\* comes right after the first check of the call's poll.
SpawnError(i) ==
  /\ procs[i].exit = "none"
  /\ procs[i].wait \in {"request", "dropped"}
  /\ procs[i].first
  /\ procs' = [procs EXCEPT ![i].exit = "spawn-error"]
  /\ backendStatus' = "error"
  /\ UNCHANGED << launch, isQuitting, pending, installerVars, callVars >>

\* pythonProcess.on('exit'): the process of call i exits.
Exit(i, code) ==
  /\ procs[i].exit = "none"
  /\ LET count == procs[i].restartCount + 1 IN
       IF CrashSeen(code, isQuitting)
       THEN IF count <= maxRestarts
            THEN /\ procs' = [procs EXCEPT ![i].exit = code,
                                           ![i].restartCount = count,
                                           ![i].timer = TRUE]
                 /\ backendStatus' = "restarting"
            ELSE /\ procs' = [procs EXCEPT ![i].exit = code,
                                           ![i].restartCount = count]
                 /\ backendStatus' = "error"
       ELSE /\ procs' = [procs EXCEPT ![i].exit = code]
            /\ backendStatus' = backendStatus
  /\ UNCHANGED << launch, isQuitting, pending, installerVars, callVars >>

\* setTimeout(() => startBackend(port), 3000) of call i fires.
RestartTimer(i) ==
  /\ procs[i].timer
  /\ Len(procs) < MaxCalls
  /\ procs' = startBackend([procs EXCEPT ![i].timer = FALSE], "auto")
  /\ UNCHANGED << launch, isQuitting, backendStatus, pending, installerVars, callVars >>

\* waitForBackend of call i, top of the loop: the exit code of the global
\* pythonProcess is read; the health request is sent when it is null.
AttemptBegin(i) ==
  /\ procs[i].wait = "check"
  /\ procs' = [procs EXCEPT
                 ![i].wait = IF ExitCodeSet(pythonProcess) THEN "thrown" ELSE "request"]
  /\ UNCHANGED << launch, isQuitting, backendStatus, pending, installerVars, callVars >>

\* The health request of call i ends: a response, or an error or the 2 s
\* timeout (0).  On 200 the call resolves, and the launch and the
\* 'setup-complete' handlers send 'ready'; otherwise the loop sleeps 2 s,
\* sends a 'loading' event and starts over.
AttemptEnd(i, statusCode) ==
  /\ procs[i].wait = "request"
  /\ statusCode # 0 => \E j \in 1..Len(procs) : Alive(procs[j])
  /\ IF HealthOk(statusCode)
     THEN /\ procs' = [procs EXCEPT ![i].wait = "resolved", ![i].answer = statusCode]
          /\ backendStatus' = IF procs[i].by \in {"launch", "setup"}
                              THEN "ready" ELSE backendStatus
     ELSE /\ procs' = [procs EXCEPT ![i].wait = "check", ![i].first = FALSE]
          /\ backendStatus' = backendStatus
  /\ UNCHANGED << launch, isQuitting, pending, installerVars, callVars >>

\* before-quit: the flag is set and the process asked to end.
Quit ==
  /\ launch # "none"
  /\ ~isQuitting
  /\ isQuitting' = TRUE
  /\ UNCHANGED << launch, procs, backendStatus, pending, installerVars, callVars >>

\* 'restart-backend': the process is asked to end and the handler waits 1 s.
\* One such request is followed in a behaviour.
RestartBackendIpc ==
  /\ launch # "none"
  /\ pending = 0
  /\ \A i \in 1..Len(procs) : procs[i].by # "ipc"
  /\ pending' = 1
  /\ UNCHANGED << launch, procs, isQuitting, backendStatus, installerVars, callVars >>

\* 'restart-backend' after its wait: startBackend.
RestartBackendIpcResume ==
  /\ pending = 1
  /\ Len(procs) < MaxCalls
  /\ pending' = 0
  /\ procs' = startBackend(procs, "ipc")
  /\ UNCHANGED << launch, isQuitting, backendStatus, installerVars, callVars >>

NextSupervisor ==
  \/ Launch
  \/ SetupCompleteIpc
  \/ \E i \in 1..Len(procs) : SpawnError(i)
  \/ \E i \in 1..Len(procs) : \E code \in {"zero", "nonzero", "signal"} : Exit(i, code)
  \/ \E i \in 1..Len(procs) : RestartTimer(i)
  \/ \E i \in 1..Len(procs) : AttemptBegin(i)
  \/ \E i \in 1..Len(procs) : \E statusCode \in {0, 200, 503} : AttemptEnd(i, statusCode)
  \/ Quit
  \/ RestartBackendIpc
  \/ RestartBackendIpcResume

SpecSupervisor == InitSupervisor /\ [][NextSupervisor]_vars

\* -------------------------------------------------------------- at rest

\* No runSetup call has been made and the data directory is empty.
InstallerAtRest ==
  /\ pc = "idle"
  /\ aborted = FALSE
  /\ useGpu = FALSE
  /\ manifest = {}
  /\ archiveKeys = <<>>
  /\ idx = 0
  /\ partial = [k \in AllKeys |-> NoFile]
  /\ dest = [k \in AllKeys |-> NoFile]
  /\ marker = <<>>
  /\ req = NoReq
  /\ prog = NoProgress
  /\ run = NewRun
  /\ prev = NoPrev
  /\ runs = 0

\* The application has not finished loading its window.
SupervisorAtRest ==
  /\ launch = "none"
  /\ procs = <<>>
  /\ isQuitting = FALSE
  /\ backendStatus = "none"
  /\ pending = 0

\* ------------------------------------------------------------ checkSystem
\* SetupManager.checkSystem of the archive installer ("archive") and of the
\* pip installer in src/electron/setup.js ("pip").  Sizes are kept in tenths
\* of a GB, the unit of the one decimal the code rounds to.

MIN_VRAM_GB == 4
MIN_FREE_SPACE_GB == 10

\* A number that is NaN, and the text 'Unknown'.
NaN == -2
Unknown == -1

\* A query that fails (execSync throws), and an answer of wmic without a
\* second line.
Fails == -1
NoLine == -3

\* What the host answers to the probes.  python: no interpreter found, one
\* that prints its version, one whose --version fails.  gpuName: nvidia-smi
\* fails, prints nothing, prints a name.  vram: the second nvidia-smi query
\* fails, prints no number, prints a number of MB.  disk: wmic fails, prints
\* no second line, prints no number, prints the free space (here in MB).
Hosts ==
  [ module   : {"archive", "pip"},
    platform : {"win32", "other"},
    python   : {"none", "ok", "broken"},
    gpuName  : {"fails", "empty", "name"},
    vram     : {Fails, NaN, 2048, 4096, 8192},
    disk     : {Fails, NoLine, NaN, 3072, 7168, 10200, 10240} ]

\* const info = { ... }
DefaultInfo ==
  [hasPython |-> FALSE, pythonVersion |-> "null", hasNvidiaGpu |-> FALSE,
   gpuName |-> "null", gpuVram |-> 0, hasEnoughVram |-> FALSE,
   hasEnoughSpace |-> TRUE, availableSpace |-> Unknown]

\* Math.round(mb / 1024 * 10) / 10 and (bytes / 1024^3).toFixed(1), in tenths.
TenthsOfGB(mb) == Round(mb * 10, 1024)

\* A catch block that throws the error on.
Rethrow(block) == block

\* try { ... } catch (e) { }: the assignments made before the throw stay,
\* the error goes no further.
TryCatch(block) == [block EXCEPT !.threw = FALSE]

\* The body of the first try block.
PythonBlock(info, host) ==
  CASE host.python = "none" -> [info |-> info, threw |-> FALSE]
    [] host.python = "broken" -> [info |-> info, threw |-> TRUE]
    [] OTHER ->
         [info |-> [info EXCEPT !.hasPython = TRUE, !.pythonVersion = "version"],
          threw |-> FALSE]

\* The body of the second try block.
GpuBlock(info, host) ==
  IF host.platform # "win32" THEN [info |-> info, threw |-> FALSE]
  ELSE IF host.gpuName = "fails" THEN [info |-> info, threw |-> TRUE]
  ELSE IF host.gpuName = "empty" THEN [info |-> info, threw |-> FALSE]
  ELSE LET named == [info EXCEPT !.hasNvidiaGpu = TRUE, !.gpuName = "name"] IN
       IF host.vram = Fails THEN [info |-> named, threw |-> TRUE]
       ELSE IF host.vram = NaN
       THEN [info |-> [named EXCEPT !.gpuVram = NaN, !.hasEnoughVram = FALSE],
             threw |-> FALSE]
       ELSE [info |-> [named EXCEPT
                         !.gpuVram = TenthsOfGB(host.vram),
                         !.hasEnoughVram = TenthsOfGB(host.vram) >= MIN_VRAM_GB * 10],
             threw |-> FALSE]

\* freeGB >= MIN_FREE_SPACE_GB in the archive installer, freeGB > 5 in the
\* pip installer.
EnoughSpace(module, tenths) ==
  IF module = "archive" THEN tenths >= MIN_FREE_SPACE_GB * 10 ELSE tenths > 5 * 10

\* The body of the third try block.
DiskBlock(info, host) ==
  IF host.platform # "win32" THEN [info |-> info, threw |-> FALSE]
  ELSE IF host.disk \in {Fails, NoLine} THEN [info |-> info, threw |-> TRUE]
  ELSE IF host.disk = NaN
  THEN [info |-> [info EXCEPT !.availableSpace = NaN, !.hasEnoughSpace = FALSE],
        threw |-> FALSE]
  ELSE [info |-> [info EXCEPT
                    !.availableSpace = TenthsOfGB(host.disk),
                    !.hasEnoughSpace = EnoughSpace(host.module, TenthsOfGB(host.disk))],
        threw |-> FALSE]

InitCheckSystem ==
  /\ InstallerAtRest
  /\ SupervisorAtRest
  /\ sys \in { [pc |-> "idle", host |-> h, info |-> DefaultInfo, ran |-> {}] : h \in Hosts }
  /\ sum = NotCalled
  /\ unzip = NotCalled
  /\ mf = NotCalled
  /\ pip = NotCalled
  /\ dl = NotCalled
  /\ wiz = NotCalled

\* One try block of checkSystem: the call goes on to `next` unless the block
\* lets an error out.
Probe(name, block, next) ==
  LET r == TryCatch(block) IN
    sys' = [sys EXCEPT !.info = r.info,
                       !.ran = @ \cup {name},
                       !.pc = IF r.threw THEN "thrown" ELSE next]

\* checkSystem is called: the info object with its defaults.
CheckSystem ==
  /\ sys.pc = "idle"
  /\ sys' = [sys EXCEPT !.pc = "python", !.info = DefaultInfo]
  /\ UNCHANGED << installerVars, supervisorVars, sum, unzip, mf, pip, dl, wiz >>

\* Check for existing Python
ProbePython ==
  /\ sys.pc = "python"
  /\ Probe("python", PythonBlock(sys.info, sys.host), "gpu")
  /\ UNCHANGED << installerVars, supervisorVars, sum, unzip, mf, pip, dl, wiz >>

\* Check for NVIDIA GPU and VRAM
ProbeGpu ==
  /\ sys.pc = "gpu"
  /\ Probe("gpu", GpuBlock(sys.info, sys.host), "disk")
  /\ UNCHANGED << installerVars, supervisorVars, sum, unzip, mf, pip, dl, wiz >>

\* Check disk space; return info
ProbeDisk ==
  /\ sys.pc = "disk"
  /\ Probe("disk", DiskBlock(sys.info, sys.host), "done")
  /\ UNCHANGED << installerVars, supervisorVars, sum, unzip, mf, pip, dl, wiz >>

NextCheckSystem ==
  \/ CheckSystem
  \/ ProbePython
  \/ ProbeGpu
  \/ ProbeDisk

SpecCheckSystem == InitCheckSystem /\ [][NextCheckSystem]_vars

\* --------------------------------------------------------- verifyChecksum
\* SetupManager.verifyChecksum(filePath, expectedSha256) followed on its
\* own: the read stream, the hash fed chunk by chunk, the comparison.

\* The error of a call that has not rejected.
NoError == [kind |-> "none", expected |-> <<>>, actual |-> <<>>]

\* String.prototype.slice(0, 12)
Slice12(s) == SubSeq(s, 1, IF Len(s) < DigestShown THEN Len(s) ELSE DigestShown)

\* new Error(`Checksum mismatch for ...: expected ${expectedSha256.slice(0, 12)}...,
\* got ${actual.slice(0, 12)}...`)
MismatchError(expected, actual) ==
  [kind |-> "mismatch", expected |-> Slice12(expected), actual |-> Slice12(actual)]

\* The error of the read stream (the file is missing or cannot be read).
ReadStreamError == [kind |-> "read", expected |-> <<>>, actual |-> <<>>]

\* The digest written in upper case.
Upper(d) ==
  [i \in 1..Len(d) |->
     CASE d[i] = "a" -> "A" [] d[i] = "b" -> "B" [] d[i] = "c" -> "C"
       [] d[i] = "d" -> "D" [] d[i] = "e" -> "E" [] d[i] = "f" -> "F"
       [] OTHER -> d[i]]

\* The digest written in lower case.
Lower(d) ==
  [i \in 1..Len(d) |->
     CASE d[i] = "A" -> "a" [] d[i] = "B" -> "b" [] d[i] = "C" -> "c"
       [] d[i] = "D" -> "d" [] d[i] = "E" -> "e" [] d[i] = "F" -> "f"
       [] OTHER -> d[i]]

\* A digest that differs from d in its last character only.
LastCharChanged(d) == [d EXCEPT ![Len(d)] = IF @ = "0" THEN "1" ELSE "0"]

\* The files verifyChecksum may be given: no file, an empty file, and what
\* the server may have served for the archive.
CheckedFiles == {NoFile, <<>>} \cup ServedFiles("python-core")

\* The digests it may be given: that of any such file, the declared digest
\* in upper case, and one that differs from it after the 12th character.
ExpectedDigests ==
  { Sha256Hex(f) : f \in CheckedFiles \ {NoFile} }
    \cup { Upper(DeclaredSha("python-core")), LastCharChanged(DeclaredSha("python-core")) }

InitVerifyChecksum ==
  /\ InstallerAtRest
  /\ SupervisorAtRest
  /\ sys = NotCalled
  /\ sum \in { [pc |-> "idle", file |-> f, expected |-> e, hashed |-> <<>>,
                error |-> NoError] : f \in CheckedFiles, e \in ExpectedDigests }
  /\ unzip = NotCalled
  /\ mf = NotCalled
  /\ pip = NotCalled
  /\ dl = NotCalled
  /\ wiz = NotCalled

\* verifyChecksum is called: the hash and the read stream are created.
VerifyChecksum ==
  /\ sum.pc = "idle"
  /\ sum' = [sum EXCEPT !.pc = "reading"]
  /\ UNCHANGED << installerVars, supervisorVars, sys, unzip, mf, pip, dl, wiz >>

\* stream.on('data', chunk => hash.update(chunk)) with a chunk of n bytes
StreamData(n) ==
  /\ sum.pc = "reading"
  /\ sum.file # NoFile
  /\ Len(sum.hashed) + n <= Len(sum.file)
  /\ sum' = [sum EXCEPT !.hashed = SubSeq(sum.file, 1, Len(sum.hashed) + n)]
  /\ UNCHANGED << installerVars, supervisorVars, sys, unzip, mf, pip, dl, wiz >>

\* stream.on('end'): the digest of what was hashed is compared.
StreamEnded ==
  /\ sum.pc = "reading"
  /\ sum.file # NoFile
  /\ sum.hashed = sum.file
  /\ IF ChecksumOk(sum.hashed, sum.expected)
     THEN sum' = [sum EXCEPT !.pc = "resolved"]
     ELSE sum' = [sum EXCEPT !.pc = "rejected",
                             !.error = MismatchError(sum.expected, Sha256Hex(sum.hashed))]
  /\ UNCHANGED << installerVars, supervisorVars, sys, unzip, mf, pip, dl, wiz >>

\* stream.on('error', reject): the file is missing, or a read fails.
StreamError ==
  /\ sum.pc = "reading"
  /\ sum' = [sum EXCEPT !.pc = "rejected", !.error = ReadStreamError]
  /\ UNCHANGED << installerVars, supervisorVars, sys, unzip, mf, pip, dl, wiz >>

NextVerifyChecksum ==
  \/ VerifyChecksum
  \/ \E n \in 1..(ArchiveSize + 1) : StreamData(n)
  \/ StreamEnded
  \/ StreamError

SpecVerifyChecksum == InitVerifyChecksum /\ [][NextVerifyChecksum]_vars

\* ------------------------------------------------------------- extractZip
\* SetupManager.extractZip(zipPath, destDir) of the archive installer
\* followed on its own.

\* How a tool may end: it extracts the archive, it is not there to run, it
\* exits with a non-zero code, it is killed at its timeout.
ToolOutcomes == {"ok", "missing", "nonzero", "timeout"}

\* A catch block entered only for a non-zero exit.
CatchNonZeroOnly(outcome) == outcome = "nonzero"

\* execSync throws for every outcome but a zero exit in time.
ExecSyncThrows(outcome) == outcome # "ok"

InitExtractZip ==
  /\ InstallerAtRest
  /\ SupervisorAtRest
  /\ sys = NotCalled
  /\ sum = NotCalled
  /\ unzip \in { [pc |-> "idle", dir |-> d, tar |-> t, powershell |-> p, ran |-> <<>>]
                   : d \in {"absent", "present"}, t \in ToolOutcomes, p \in ToolOutcomes }
  /\ mf = NotCalled
  /\ pip = NotCalled
  /\ dl = NotCalled
  /\ wiz = NotCalled

\* extractZip is called: fs.mkdirSync(destDir, { recursive: true })
ExtractZip ==
  /\ unzip.pc = "idle"
  /\ unzip' = [unzip EXCEPT !.pc = "tar",
                            !.dir = IF @ = "absent" THEN "created" ELSE @]
  /\ UNCHANGED << installerVars, supervisorVars, sys, sum, mf, pip, dl, wiz >>

\* try { execSync(`tar.exe -xf ...`) }: the call returns when tar succeeds,
\* the catch block is entered when it throws.
RunTar ==
  /\ unzip.pc = "tar"
  /\ unzip' = [unzip EXCEPT
                 !.ran = Append(@, "tar"),
                 !.pc = IF ExecSyncThrows(unzip.tar) THEN "powershell" ELSE "resolved"]
  /\ UNCHANGED << installerVars, supervisorVars, sys, sum, mf, pip, dl, wiz >>

\* catch (tarError) { execSync(`powershell -command "Expand-Archive ..."`) }
RunPowerShell ==
  /\ unzip.pc = "powershell"
  /\ unzip' = [unzip EXCEPT
                 !.ran = Append(@, "powershell"),
                 !.pc = IF ExecSyncThrows(unzip.powershell) THEN "rejected" ELSE "resolved"]
  /\ UNCHANGED << installerVars, supervisorVars, sys, sum, mf, pip, dl, wiz >>

NextExtractZip ==
  \/ ExtractZip
  \/ RunTar
  \/ RunPowerShell

SpecExtractZip == InitExtractZip /\ [][NextExtractZip]_vars

\* ---------------------------------------------------------- fetchManifest
\* SetupManager.fetchManifest and _readJson followed on their own.

\* A URL that cannot be reached (the request emits 'error').
Unreachable == [status |-> 0, body |-> "none"]

\* What a body may be: the manifest, some other JSON document (an error
\* object, say), a text that is not JSON.
Bodies == {"manifest", "json", "text"}

\* What the manifest URL and the Location it may redirect to answer.
FirstAnswers ==
  {Unreachable} \cup [status : {200, 301, 302, 404, 500}, body : Bodies]
TargetAnswers ==
  {Unreachable} \cup [status : {200, 302, 404}, body : Bodies]

\* res.statusCode === 301 || res.statusCode === 302
IsRedirect(statusCode) == statusCode = 301 \/ statusCode = 302

\* JSON.parse(data) throws
ParseFails(body) == body = "text"

InitFetchManifest ==
  /\ InstallerAtRest
  /\ SupervisorAtRest
  /\ sys = NotCalled
  /\ sum = NotCalled
  /\ unzip = NotCalled
  /\ mf \in { [pc |-> "idle", first |-> a, target |-> b, requests |-> 0,
               final |-> Unreachable, value |-> "none", error |-> "none"]
                : a \in FirstAnswers, b \in TargetAnswers }
  /\ pip = NotCalled
  /\ dl = NotCalled
  /\ wiz = NotCalled

\* fetchManifest is called: get(url, ...)
FetchManifest ==
  /\ mf.pc = "idle"
  /\ mf' = [mf EXCEPT !.pc = "requested", !.requests = 1]
  /\ UNCHANGED << installerVars, supervisorVars, sys, sum, unzip, pip, dl, wiz >>

\* get(url, ...).on('error', reject)
ManifestRequestError ==
  /\ mf.pc = "requested"
  /\ mf.first = Unreachable
  /\ mf' = [mf EXCEPT !.pc = "rejected", !.error = "network"]
  /\ UNCHANGED << installerVars, supervisorVars, sys, sum, unzip, pip, dl, wiz >>

\* The callback of the first request: a redirect is followed, a status
\* other than 200 rejected, a 200 response read.
ManifestResponse ==
  /\ mf.pc = "requested"
  /\ mf.first # Unreachable
  /\ IF IsRedirect(mf.first.status)
     THEN mf' = [mf EXCEPT !.pc = "redirected", !.requests = 2]
     ELSE IF mf.first.status # 200
     THEN mf' = [mf EXCEPT !.pc = "rejected", !.error = "status", !.final = mf.first]
     ELSE mf' = [mf EXCEPT !.pc = "reading", !.final = mf.first]
  /\ UNCHANGED << installerVars, supervisorVars, sys, sum, unzip, pip, dl, wiz >>

\* redirectGet(res.headers.location, ...).on('error', reject)
RedirectRequestError ==
  /\ mf.pc = "redirected"
  /\ mf.target = Unreachable
  /\ mf' = [mf EXCEPT !.pc = "rejected", !.error = "network"]
  /\ UNCHANGED << installerVars, supervisorVars, sys, sum, unzip, pip, dl, wiz >>

\* The callback of the redirected request: this._readJson(redirectRes, ...)
RedirectResponse ==
  /\ mf.pc = "redirected"
  /\ mf.target # Unreachable
  /\ mf' = [mf EXCEPT !.pc = "reading", !.final = mf.target]
  /\ UNCHANGED << installerVars, supervisorVars, sys, sum, unzip, pip, dl, wiz >>

\* _readJson, res.on('end'): JSON.parse of the body read.
ReadJsonEnd ==
  /\ mf.pc = "reading"
  /\ IF ParseFails(mf.final.body)
     THEN mf' = [mf EXCEPT !.pc = "rejected", !.error = "parse"]
     ELSE mf' = [mf EXCEPT !.pc = "resolved", !.value = mf.final.body]
  /\ UNCHANGED << installerVars, supervisorVars, sys, sum, unzip, pip, dl, wiz >>

\* _readJson, res.on('error', reject)
ReadJsonError ==
  /\ mf.pc = "reading"
  /\ mf' = [mf EXCEPT !.pc = "rejected", !.error = "network"]
  /\ UNCHANGED << installerVars, supervisorVars, sys, sum, unzip, pip, dl, wiz >>

NextFetchManifest ==
  \/ FetchManifest
  \/ ManifestRequestError
  \/ ManifestResponse
  \/ RedirectRequestError
  \/ RedirectResponse
  \/ ReadJsonEnd
  \/ ReadJsonError

SpecFetchManifest == InitFetchManifest /\ [][NextFetchManifest]_vars

\* ------------------------------------------------- runSetup (pip installer)
\* SetupManager.runSetup of src/electron/setup.js, which installs with pip
\* and a model download script, followed on its own.

\* How a spawned child (pip, the download script) may end.
ChildOutcomes == {"zero", "nonzero", "spawn-error"}

\* The machines the pip installer may run on: whether findPython finds an
\* interpreter, whether installPythonEmbedded succeeds, how the two pip
\* commands and download_model.py end, whether requirements.txt exists.
PipHosts ==
  [ python : {"found", "absent"},
    embed : {"ok", "fails"},
    upgrade : ChildOutcomes,
    requirements : BOOLEAN,
    install : ChildOutcomes,
    script : ChildOutcomes ]

\* runPipCommand resolves with: code === 0 on 'close', false on 'error'.
runPipCommand(outcome) == outcome = "zero"

\* The marker setup.js writes: {version, model, useGpu, timestamp}, no
\* setupVersion.
PipMarker == << 0 >>

InitPipSetup ==
  /\ InstallerAtRest
  /\ SupervisorAtRest
  /\ sys = NotCalled
  /\ sum = NotCalled
  /\ unzip = NotCalled
  /\ mf = NotCalled
  /\ pip \in { [pc |-> "idle", host |-> h, stage |-> "none", percent |-> 0,
                deps |-> "none", model |-> "none", result |-> "none"]
                 : h \in PipHosts }
  /\ dl = NotCalled
  /\ wiz = NotCalled

\* runSetup is called: findPython, then installPythonEmbedded when nothing
\* was found.
PipRunSetup ==
  /\ pip.pc = "idle"
  /\ IF pip.host.python = "absent"
     THEN pip' = [pip EXCEPT !.pc = "embed", !.stage = "python", !.percent = 5]
     ELSE pip' = [pip EXCEPT !.pc = "upgrade", !.stage = "python", !.percent = 25]
  /\ UNCHANGED << installerVars, supervisorVars, sys, sum, unzip, mf, dl, wiz >>

\* installPythonEmbedded ends: a failed download, extraction or get-pip.py
\* throws, and runSetup's catch reports 'error' and rethrows.
PipInstallPythonEmbedded ==
  /\ pip.pc = "embed"
  /\ IF pip.host.embed = "fails"
     THEN pip' = [pip EXCEPT !.pc = "done", !.stage = "error", !.percent = 0,
                             !.result = "error"]
     ELSE pip' = [pip EXCEPT !.pc = "upgrade", !.percent = 25]
  /\ UNCHANGED << installerVars, supervisorVars, sys, sum, unzip, mf, dl, wiz >>

\* installDependencies, first half: pip install --upgrade pip, its result
\* dropped.
PipUpgrade ==
  /\ pip.pc = "upgrade"
  /\ pip' = [pip EXCEPT !.pc = "requirements", !.stage = "dependencies",
                        !.percent = 35]
  /\ UNCHANGED << installerVars, supervisorVars, sys, sum, unzip, mf, dl, wiz >>

\* installDependencies, second half: pip install -r requirements.txt when
\* the file exists, its result dropped; a message when it does not.
PipInstallRequirements ==
  /\ pip.pc = "requirements"
  /\ pip' = [pip EXCEPT !.pc = "model", !.percent = 70,
                        !.deps = IF ~pip.host.requirements THEN "missing"
                                 ELSE IF runPipCommand(pip.host.install)
                                 THEN "installed" ELSE "failed"]
  /\ UNCHANGED << installerVars, supervisorVars, sys, sum, unzip, mf, dl, wiz >>

\* downloadModel: the promise resolves on 'close' with any code and on
\* 'error'.
PipDownloadModel ==
  /\ pip.pc = "model"
  /\ pip' = [pip EXCEPT !.pc = "marker", !.stage = "model", !.percent = 95,
                        !.model = IF pip.host.script = "zero"
                                  THEN "downloaded" ELSE "failed"]
  /\ UNCHANGED << installerVars, supervisorVars, sys, sum, unzip, mf, dl, wiz >>

\* The end of runSetup: the marker is written, 'complete' is sent and
\* { success: true } returned.
PipWriteMarker ==
  /\ pip.pc = "marker"
  /\ marker' = PipMarker
  /\ pip' = [pip EXCEPT !.pc = "done", !.stage = "complete", !.percent = 100,
                        !.result = "success"]
  /\ UNCHANGED << pc, aborted, useGpu, manifest, archiveKeys, idx, partial,
                  dest, req, prog, run, prev, runs >>
  /\ UNCHANGED << supervisorVars, sys, sum, unzip, mf, dl, wiz >>

NextPipSetup ==
  \/ PipRunSetup
  \/ PipInstallPythonEmbedded
  \/ PipUpgrade
  \/ PipInstallRequirements
  \/ PipDownloadModel
  \/ PipWriteMarker

SpecPipSetup == InitPipSetup /\ [][NextPipSetup]_vars

\* ------------------------------------------------------------ makeRequest
\* makeRequest of downloadFileWithResume followed request by request on a
\* server that redirects.

\* Requests followed in one download (the code counts none).
MaxRequests == 8

\* The servers: the URL redirects `redirects` times, or without end when
\* `loop` is set, before the answer `final`: 0 for a request that fails
\* (no connection, the 30 s timeout), else the status.
RedirectingServers ==
  [ loop : BOOLEAN, redirects : 0..MaxRequests, final : {0, 200, 206, 404},
    startByte : 0..1 ]

\* The next response of the server is a 301 or 302.
AnswersRedirect(server, hops) == server.loop \/ hops < server.redirects

InitMakeRequest ==
  /\ InstallerAtRest
  /\ SupervisorAtRest
  /\ sys = NotCalled
  /\ sum = NotCalled
  /\ unzip = NotCalled
  /\ mf = NotCalled
  /\ pip = NotCalled
  /\ dl \in { [pc |-> "idle", server |-> s, range |-> 0, requests |-> 0,
               hops |-> 0, status |-> 0] : s \in RedirectingServers }
  /\ wiz = NotCalled

\* downloadFileWithResume builds the headers and calls makeRequest(url).
MakeRequest ==
  /\ dl.pc = "idle"
  /\ dl' = [dl EXCEPT !.pc = "request", !.range = dl.server.startByte,
                      !.requests = 1]
  /\ UNCHANGED << installerVars, supervisorVars, sys, sum, unzip, mf, pip, wiz >>

\* if (res.statusCode === 301 || res.statusCode === 302)
\*   { makeRequest(res.headers.location); return; }
FollowRedirect ==
  /\ dl.pc = "request"
  /\ AnswersRedirect(dl.server, dl.hops)
  /\ dl.requests < MaxRequests
  /\ dl' = [dl EXCEPT !.hops = @ + 1, !.requests = @ + 1]
  /\ UNCHANGED << installerVars, supervisorVars, sys, sum, unzip, mf, pip, wiz >>

\* req.on('error', reject) and the 30 s timeout
RequestFails ==
  /\ dl.pc = "request"
  /\ ~AnswersRedirect(dl.server, dl.hops)
  /\ dl.server.final = 0
  /\ dl' = [dl EXCEPT !.pc = "rejected"]
  /\ UNCHANGED << installerVars, supervisorVars, sys, sum, unzip, mf, pip, wiz >>

\* A status other than 200 and 206 rejects; 200 and 206 open the file.
FinalResponse ==
  /\ dl.pc = "request"
  /\ ~AnswersRedirect(dl.server, dl.hops)
  /\ dl.server.final # 0
  /\ dl' = [dl EXCEPT !.status = dl.server.final,
                      !.pc = IF dl.server.final \in {200, 206}
                             THEN "streaming" ELSE "rejected"]
  /\ UNCHANGED << installerVars, supervisorVars, sys, sum, unzip, mf, pip, wiz >>

\* file 'finish': rename, resolve.
BodyWritten ==
  /\ dl.pc = "streaming"
  /\ dl' = [dl EXCEPT !.pc = "resolved"]
  /\ UNCHANGED << installerVars, supervisorVars, sys, sum, unzip, mf, pip, wiz >>

\* file or res 'error': reject.
BodyFails ==
  /\ dl.pc = "streaming"
  /\ dl' = [dl EXCEPT !.pc = "rejected"]
  /\ UNCHANGED << installerVars, supervisorVars, sys, sum, unzip, mf, pip, wiz >>

NextMakeRequest ==
  \/ MakeRequest
  \/ FollowRedirect
  \/ RequestFails
  \/ FinalResponse
  \/ BodyWritten
  \/ BodyFails

SpecMakeRequest == InitMakeRequest /\ [][NextMakeRequest]_vars

\* ------------------------------------------------------- the setup wizard
\* SetupWizard.jsx with the 'start-setup' handler of main.js: the wizard's
\* state, the requests it has sent that main.js has not yet taken up
\* (outbox), the runSetup calls in flight (active), and the progress events
\* and replies sent to the wizard that it has not yet handled (inbox).

\* startInstallation calls followed, and messages kept waiting.
MaxClicks == 3
MaxInbox == 3

\* An install button shown whatever the state.
InstallAlwaysShown(isInstalling) == TRUE

\* {!isInstalling && ( <button onClick={startInstallation}> ... )}
InstallShown(isInstalling) == ~isInstalling

\* disabled={isChecking || !hasNvidiaGpu || !hasEnoughVram || !hasEnoughSpace}
ContinueDisabled(w) == w.isChecking \/ ~w.infoOk

InitWizard ==
  /\ InstallerAtRest
  /\ SupervisorAtRest
  /\ sys = NotCalled
  /\ sum = NotCalled
  /\ unzip = NotCalled
  /\ mf = NotCalled
  /\ pip = NotCalled
  /\ dl = NotCalled
  /\ wiz = [pc |-> "mounted", step |-> 1, isChecking |-> TRUE, infoOk |-> FALSE,
            isInstalling |-> FALSE, error |-> FALSE, stage |-> "none",
            clicks |-> 0, outbox |-> 0, active |-> 0, inbox |-> <<>>]

WizardFrame ==
  UNCHANGED << installerVars, supervisorVars, sys, sum, unzip, mf, pip, dl >>

\* checkSystem() of the wizard returns: setSystemInfo, setIsChecking(false)
WizardCheckSystem(ok) ==
  /\ wiz.pc = "mounted"
  /\ wiz.isChecking
  /\ wiz' = [wiz EXCEPT !.isChecking = FALSE, !.infoOk = ok]
  /\ WizardFrame

\* Continue on step 1, Continue and Back on step 2, Back on step 3
WizardStep(from, to) ==
  /\ wiz.pc = "mounted"
  /\ wiz.step = from
  /\ from = 1 => ~ContinueDisabled(wiz)
  /\ from = 3 => ~wiz.isInstalling
  /\ wiz' = [wiz EXCEPT !.step = to]
  /\ WizardFrame

\* startInstallation up to the await: the flags, then the invoke.
StartInstallation ==
  /\ wiz.pc = "mounted"
  /\ wiz.step = 3
  /\ InstallShown(wiz.isInstalling)
  /\ wiz.clicks < MaxClicks
  /\ wiz' = [wiz EXCEPT !.isInstalling = TRUE, !.error = FALSE,
                        !.clicks = @ + 1, !.outbox = @ + 1]
  /\ WizardFrame

\* ipcMain.handle('start-setup'): setupManager.runSetup(options)
StartSetupIpc ==
  /\ wiz.outbox > 0
  /\ wiz' = [wiz EXCEPT !.outbox = @ - 1, !.active = @ + 1]
  /\ WizardFrame

\* A run in flight sends a progress event.
RunSendsProgress ==
  /\ wiz.active > 0
  /\ Len(wiz.inbox) < MaxInbox
  /\ wiz' = [wiz EXCEPT !.inbox = Append(@, "progress")]
  /\ WizardFrame

\* A run ends in its catch block: the 'error' event, then the rejection.
RunEndsInError ==
  /\ wiz.active > 0
  /\ wiz' = [wiz EXCEPT !.active = @ - 1,
                        !.inbox = @ \o << "error", "rejected" >>]
  /\ WizardFrame

\* A run ends: the 'complete' event, then { success: true }.
RunEndsComplete ==
  /\ wiz.active > 0
  /\ wiz' = [wiz EXCEPT !.active = @ - 1,
                        !.inbox = @ \o << "complete", "resolved" >>]
  /\ WizardFrame

\* The onSetupProgress listener takes a progress event.
OnSetupProgress ==
  /\ wiz.pc = "mounted"
  /\ wiz.inbox # <<>>
  /\ Head(wiz.inbox) \in {"progress", "complete", "error"}
  /\ wiz' = [wiz EXCEPT
               !.inbox = Tail(@),
               !.stage = Head(wiz.inbox),
               !.error = IF Head(wiz.inbox) = "error" THEN TRUE ELSE @,
               !.isInstalling = IF Head(wiz.inbox) = "error" THEN FALSE ELSE @]
  /\ WizardFrame

\* The await of startInstallation ends: nothing on a result, the catch
\* block (setError, setIsInstalling(false)) on a rejection.
OnStartSetupReply ==
  /\ wiz.pc = "mounted"
  /\ wiz.inbox # <<>>
  /\ Head(wiz.inbox) \in {"resolved", "rejected"}
  /\ wiz' = [wiz EXCEPT
               !.inbox = Tail(@),
               !.error = IF Head(wiz.inbox) = "rejected" THEN TRUE ELSE @,
               !.isInstalling = IF Head(wiz.inbox) = "rejected" THEN FALSE ELSE @]
  /\ WizardFrame

\* 1.5 s after the 'complete' event: setupComplete(), onComplete(); the
\* wizard is unmounted.
WizardCompletes ==
  /\ wiz.pc = "mounted"
  /\ wiz.stage = "complete"
  /\ wiz' = [wiz EXCEPT !.pc = "unmounted"]
  /\ WizardFrame

NextWizard ==
  \/ \E ok \in BOOLEAN : WizardCheckSystem(ok)
  \/ \E from \in 1..3 : \E to \in {from - 1, from + 1} \cap 1..3 : WizardStep(from, to)
  \/ StartInstallation
  \/ StartSetupIpc
  \/ RunSendsProgress
  \/ RunEndsInError
  \/ RunEndsComplete
  \/ OnSetupProgress
  \/ OnStartSetupReply
  \/ WizardCompletes

SpecWizard == InitWizard /\ [][NextWizard]_vars

\* ----------------------------------------------------------------- claims

Required == { archiveKeys[n] : n \in 1..Len(archiveKeys) }

\* C1: the run writes .setup-complete only after every archive of the
\* required list has, in this run, been downloaded, passed its SHA-256 check
\* and been extracted, and the fixups have run; while a step of the run is
\* unfinished or has failed, the run has not written the marker.
C1_MarkerOnlyAfterEveryArchive ==
  /\ run.wroteMarker =>
       /\ Len(archiveKeys) = 4
       /\ Required \subseteq run.dlDone
       /\ Required \subseteq run.verified
       /\ Required \subseteq run.extracted
       /\ Required \subseteq run.sound
       /\ run.fixups
       /\ run.failure = NoFailure
       /\ marker = << SETUP_VERSION >>
  /\ (Running \/ pc = "error") => ~run.wroteMarker

\* A run that installed all four archives and wrote the marker.
C1_Witness ==
  /\ pc = "complete"
  /\ run.wroteMarker
  /\ Cardinality(run.extracted) = 4

\* C2: after a run that ends in error the marker is absent, and after a run
\* that completes it is present with setupVersion = SETUP_VERSION.
C2_MarkerAbsentAfterError ==
  /\ pc = "error" => marker = <<>>
  /\ pc = "complete" => marker = << SETUP_VERSION >>

\* C3: whenever downloadFileWithResume has resolved, the file at destPath has
\* the declared size and the declared digest.
C3_DownloadedFileMatchesManifest ==
  pc = "verify" =>
    /\ Len(dest[req.key]) = DeclaredSize(req.key)
    /\ Sha256Hex(dest[req.key]) = DeclaredSha(req.key)

\* The file an uninterrupted download of the archive leaves: no .partial
\* file to start from, a 200 answer with the whole source.
UninterruptedDownload(key) ==
  OpenForWrite(WriteFlags(StartByteAfter(200, 0), 200), NoFile)
    \o ResponseBody(200, 0, Source(key))

\* The first k bytes of the source, 0 < k < declared size.
InterruptedPartials(key) ==
  { SubSeq(Source(key), 1, k) : k \in 1..(DeclaredSize(key) - 1) }

\* C4: a download that starts from a .partial file holding the first k bytes
\* of the source, 0 < k < S, and is answered 206 by a server that honours
\* the range, leaves at destPath the file an uninterrupted download leaves.
C4_ResumeIdempotent ==
  ( /\ pc = "verify"
    /\ req.startPartial \in InterruptedPartials(req.key)
    /\ req.status = 206
    /\ req.served = Source(req.key) )
  => dest[req.key] = UninterruptedDownload(req.key)

\* A resumed download, answered 206, has resolved.
C4_Witness ==
  /\ pc = "verify"
  /\ req.startPartial \in InterruptedPartials(req.key)
  /\ req.status = 206
  /\ req.served = Source(req.key)
  /\ req.range = Len(req.startPartial)

\* C5: when a request that carried a Range header is answered 200, startByte
\* is reset to 0 and the .partial file is opened with 'w': it holds exactly
\* the bytes of the answer received so far, and the file at destPath is the
\* whole file the server sent.
C5_FullAnswerOverwritesPartial ==
  (req.range > 0 /\ req.status = 200) =>
    /\ req.startByte = 0
    /\ req.flags = "w"
    /\ pc = "streaming" =>
         /\ partial[req.key] = SubSeq(req.served, 1, req.downloaded)
         /\ req.body = SubSeq(req.served, req.downloaded + 1, Len(req.served))
    /\ pc \in {"verify", "extract"} => dest[req.key] = req.served

\* A resume attempt answered 200 with the whole source has resolved.
C5_Witness ==
  /\ pc = "verify"
  /\ req.range > 0
  /\ req.status = 200
  /\ req.served = Source(req.key)
  /\ dest[req.key] = Source(req.key)

\* C6: the percents of the non-error progress events of a run never
\* decrease, and the last non-error event of a completed run reports 100.
C6_ProgressMonotone ==
  /\ prog.monotone
  /\ pc = "complete" => prog.last = 100

\* C7: when a download fails, the .partial file that existed before the
\* attempt or was written during it is still on disk, the run ends in error
\* and has written no marker.
C7_PartialKeptOnDownloadFailure ==
  (run.failure.kind \in DownloadFailures) =>
    /\ pc = "error"
    /\ ~run.wroteMarker
    /\ run.failure.hadPartial => partial[run.failure.key] # NoFile

\* Times the iteration of an archive began in the current run.
Attempts(key) == Cardinality({ n \in 1..Len(run.started) : run.started[n] = key })

\* What C8 says of the run that fails on a checksum, and of the failed
\* archive in the run after it: the zip file is deleted and not extracted,
\* the archive was tried once, neither file of the archive is left, and the
\* next run requests the archive without a Range header, from byte 0.
ChecksumFailureHandled ==
  /\ run.failure.kind = "checksum" =>
       /\ pc = "error"
       /\ dest[run.failure.key] = NoFile
       /\ partial[run.failure.key] = NoFile
       /\ run.failure.key \notin run.extracted
       /\ Attempts(run.failure.key) = 1
  /\ (prev.failed # "none" /\ req.key = prev.failed) =>
       /\ req.startPartial = NoFile
       /\ req.range = 0
       /\ req.network

AbortHonoured ==
  /\ Len(run.started) = run.abortAt
  /\ ~run.wroteMarker
  /\ pc # "complete"
  /\ run.failure.kind = "cancelled" => aborted

\* C10 as stated: whichever archive is in flight when abort() is called.
C10_AbortAlwaysCancels ==
  /\ run.abortAt # -1 => AbortHonoured
  /\ run.failure.kind = "cancelled" => run.abortAt # -1

\* C10 as amended: an abort() called before the iteration of the last archive
\* has begun cancels the run at the top of the next iteration, and an
\* abort() changes nothing but the flag (the step in flight goes on); the
\* flag is not polled once the last iteration has begun.
C10_AbortCancelsBeforeLastArchive ==
  /\ [] ( /\ run.abortAt \in 0..(Len(archiveKeys) - 1) => AbortHonoured
          /\ (run.abortAt # -1 /\ archiveKeys = <<>>) => AbortHonoured
          /\ run.failure.kind = "cancelled" => run.abortAt # -1 )
  /\ [][ (aborted' /\ ~aborted) =>
           UNCHANGED << pc, idx, archiveKeys, partial, dest, marker, req, prog >> ]_vars

\* abort() came while the second archive was in flight; that archive was
\* installed all the same and the run was cancelled before the third.
C10_Witness ==
  /\ pc = "error"
  /\ run.failure.kind = "cancelled"
  /\ run.abortAt = 2
  /\ Cardinality(run.extracted) = 2

\* ------------------------------------------- claims on the supervisor

\* C11: on launch the backend is started directly only when the marker is
\* present, parses and carries a setupVersion of at least SETUP_VERSION; with
\* any other marker, or none, the setup wizard is shown instead.
C11_ServerOnlyWithCurrentMarker ==
  LET current == /\ marker \notin {<<>>, Unparsable}
                 /\ marker[1] >= SETUP_VERSION
  IN /\ launch = "server" => current
     /\ launch = "setup" => ~current

\* Automatic restarts: startBackend calls made by the restart timer.
AutoRestarts == Cardinality({ i \in 1..Len(procs) : procs[i].by = "auto" })

\* C12: after one startBackend call (no other request starts a backend), at
\* most maxRestarts automatic restarts are made, whatever the exits.
C12_RestartsBounded ==
  Cardinality({ i \in 1..Len(procs) : procs[i].by # "auto" }) = 1
    => AutoRestarts <= maxRestarts

PythonFailed == sys.host.python = "broken"
GpuNameFailed == sys.host.platform = "win32" /\ sys.host.gpuName = "fails"
VramFailed ==
  sys.host.platform = "win32" /\ sys.host.gpuName = "name" /\ sys.host.vram = Fails
DiskFailed == sys.host.platform = "win32" /\ sys.host.disk \in {Fails, NoLine}

\* checkSystem never throws, and every probe runs whatever the others did.
ChecksFailSoft ==
  /\ sys.pc # "thrown"
  /\ sys.pc = "done" =>
       /\ sys.ran = {"python", "gpu", "disk"}
       /\ sys.info.hasPython = (sys.host.python = "ok")
       /\ (sys.host.platform = "win32" /\ sys.host.disk \notin {Fails, NoLine, NaN})
            => sys.info.availableSpace = TenthsOfGB(sys.host.disk)
       /\ (sys.host.platform = "win32" /\ sys.host.gpuName = "name"
             /\ sys.host.vram \notin {Fails, NaN})
            => sys.info.gpuVram = TenthsOfGB(sys.host.vram)
       /\ PythonFailed =>
            sys.info.hasPython = FALSE /\ sys.info.pythonVersion = "null"
       /\ DiskFailed =>
            sys.info.hasEnoughSpace = TRUE /\ sys.info.availableSpace = Unknown

\* C13 as stated: a failed probe leaves its fields at their defaults; for the
\* GPU probe, hasNvidiaGpu false and hasEnoughVram false.
C13_FailedProbeLeavesDefaults ==
  /\ ChecksFailSoft
  /\ (sys.pc = "done" /\ (GpuNameFailed \/ VramFailed)) =>
       /\ sys.info.hasNvidiaGpu = FALSE
       /\ sys.info.gpuName = "null"
       /\ sys.info.gpuVram = 0
       /\ sys.info.hasEnoughVram = FALSE

\* C13 as amended: a probe that fails leaves the fields it had not yet
\* assigned at their defaults.  The GPU probe makes two queries: when the
\* first fails all its fields are at their defaults; when the second (VRAM)
\* fails, hasNvidiaGpu and gpuName keep what the first query gave, gpuVram
\* stays 0 and hasEnoughVram false.
C13_FailedProbeKeepsEarlierFields ==
  /\ ChecksFailSoft
  /\ (sys.pc = "done" /\ GpuNameFailed) =>
       /\ sys.info.hasNvidiaGpu = FALSE
       /\ sys.info.gpuName = "null"
       /\ sys.info.gpuVram = 0
       /\ sys.info.hasEnoughVram = FALSE
  /\ (sys.pc = "done" /\ VramFailed) =>
       /\ sys.info.hasNvidiaGpu = TRUE
       /\ sys.info.gpuName = "name"
       /\ sys.info.gpuVram = 0
       /\ sys.info.hasEnoughVram = FALSE

\* checkSystem has returned on a host where the interpreter and the VRAM
\* query failed and the disk query answered.
C13_Witness ==
  /\ sys.pc = "done"
  /\ PythonFailed
  /\ VramFailed
  /\ sys.info.availableSpace = TenthsOfGB(10240)
  /\ sys.info.hasEnoughSpace

\* --------------------------------------------- claims on verifyChecksum

\* C14 as stated: the call resolves exactly when the digest of the whole
\* file and the expected digest are equal as lowercase hex strings, and a
\* mismatch is rejected with an error that carries the expected and the
\* actual digest, two unequal strings; the file is left as it was.
C14_MismatchCarriesDigests ==
  /\ sum.pc = "resolved" => Lower(Sha256Hex(sum.file)) = Lower(sum.expected)
  /\ (sum.pc = "rejected" /\ sum.error.kind = "mismatch") =>
       /\ Lower(Sha256Hex(sum.file)) # Lower(sum.expected)
       /\ sum.error.expected = sum.expected
       /\ sum.error.actual = Sha256Hex(sum.file)
       /\ sum.error.expected # sum.error.actual

\* C14 as amended: the call resolves exactly when the whole file was read
\* and its lowercase hex digest is, character for character, the expected
\* string; otherwise it rejects, with the error of the read stream when the
\* file could not be read, else with an error that shows the first 12
\* characters of the expected string and of the actual digest.  No step of
\* the call changes the file.
C14_VerifierOnlyReports ==
  /\ [] ( /\ sum.pc = "resolved" =>
               /\ sum.file # NoFile
               /\ sum.hashed = sum.file
               /\ Sha256Hex(sum.file) = sum.expected
          /\ sum.pc = "rejected" => sum.error.kind \in {"mismatch", "read"}
          /\ (sum.pc = "rejected" /\ sum.error.kind = "mismatch") =>
               /\ sum.hashed = sum.file
               /\ Sha256Hex(sum.file) # sum.expected
               /\ sum.error.expected = SubSeq(sum.expected, 1, DigestShown)
               /\ sum.error.actual = SubSeq(Sha256Hex(sum.file), 1, DigestShown) )
  /\ [][ sum'.file = sum.file /\ sum'.expected = sum.expected ]_vars

\* The archive was checked against a digest that differs from its own after
\* the 12th character: the call rejected, and the two strings of the error
\* are the same.
C14_Witness ==
  /\ sum.pc = "rejected"
  /\ sum.error.kind = "mismatch"
  /\ sum.file = Source("python-core")
  /\ sum.error.expected = sum.error.actual

\* ------------------------------------------------- claims on extractZip

\* C15: the destination directory exists once the call is past its first
\* statement; tar.exe is run first; PowerShell is run exactly when tar.exe
\* failed, in whatever way; the call fails only when both tools failed.
C15_FastToolThenSlowTool ==
  /\ unzip.pc \in {"tar", "powershell", "resolved", "rejected"} => unzip.dir # "absent"
  /\ unzip.pc \in {"powershell", "resolved", "rejected"} => unzip.ran[1] = "tar"
  /\ unzip.pc \in {"resolved", "rejected"} =>
       IF unzip.tar = "ok"
       THEN unzip.ran = << "tar" >> /\ unzip.pc = "resolved"
       ELSE /\ unzip.ran = << "tar", "powershell" >>
            /\ unzip.pc = "rejected" <=> unzip.powershell # "ok"

\* tar.exe was not there to run, the directory had to be created, and
\* PowerShell extracted the archive.
C15_Witness ==
  /\ unzip.pc = "resolved"
  /\ unzip.dir = "created"
  /\ unzip.tar = "missing"
  /\ unzip.ran = << "tar", "powershell" >>

\* ---------------------------------------------- claims on fetchManifest

\* C16: a redirect is followed once; the call resolves only with the parsed
\* body of a final response of status 200, and rejects when that response
\* (the first one, or the one at the redirect target) has another status,
\* with a parse error when a 200 body is not JSON.
C16_ManifestOnlyFromStatus200 ==
  /\ mf.requests <= 2
  /\ mf.pc = "resolved" =>
       /\ mf.final.status = 200
       /\ ~ParseFails(mf.final.body)
       /\ mf.value = mf.final.body
  /\ (mf.pc \in {"resolved", "rejected"} /\ mf.final # Unreachable
        /\ mf.final.status # 200) => mf.pc = "rejected"
  /\ (mf.pc = "rejected" /\ mf.error = "parse") => mf.final.status = 200

\* ------------------------------------------ claims on the pip installer

\* C17: setup.js writes .setup-complete and reports success only when the
\* dependencies were installed (requirements.txt present, pip ended with
\* code 0) and the model download script succeeded.
C17_MarkerOnlyAfterInstall ==
  (marker # <<>> \/ pip.result = "success") =>
     /\ pip.deps = "installed"
     /\ pip.model = "downloaded"

\* ------------------------------------- claims on the installer, continued

\* The .partial file of an archive is never longer than the declared size.
PartialWithinDeclaredSize ==
  \A k \in AllKeys : partial[k] # NoFile => Len(partial[k]) <= DeclaredSize(k)

\* A download that started on a .partial file of at least the declared size
\* made no request, and the zip file is that .partial file.
CompletePartialSkipsNetwork ==
  (req.key # "none" /\ AlreadyComplete(req.startPartial, DeclaredSize(req.key))) =>
     /\ ~req.network
     /\ req.status = 0
     /\ partial[req.key] = NoFile
     /\ pc = "verify" => dest[req.key] = req.startPartial

\* C18: in every reachable state a .partial file has at most the declared
\* size of its archive; and a download that starts on a .partial file of at
\* least the declared size renames it to the zip file without a request.
C18_PartialNeverExceedsDeclaredSize ==
  /\ PartialWithinDeclaredSize
  /\ CompletePartialSkipsNetwork

\* An archive the run has done with: downloaded, verified, extracted, its
\* zip file and .partial file gone.
DoneWith(key) ==
  /\ key \in run.dlDone
  /\ key \in run.verified
  /\ key \in run.extracted
  /\ dest[key] = NoFile
  /\ partial[key] = NoFile

VramProbed == sys.host.gpuName = "name" /\ sys.host.vram \notin {Fails, NaN}
DiskProbed == sys.host.disk \notin {Fails, NoLine, NaN}

\* C21: on a host whose queries answer, hasEnoughVram is (VRAM >= 4 GB) and
\* hasEnoughSpace is (free space >= 10 GB): false for every free space below
\* 10 GB, true from 10 GB on.
C21_PolicyThresholds ==
  (sys.pc = "done" /\ sys.host.platform = "win32") =>
     /\ VramProbed =>
          (sys.info.hasEnoughVram <=> sys.host.vram >= MIN_VRAM_GB * 1024)
     /\ DiskProbed =>
          (sys.info.hasEnoughSpace <=> sys.host.disk >= MIN_FREE_SPACE_GB * 1024)

\* ------------------------------------- claims on the installer, continued

\* The archive list the run has built holds python-core, the PyTorch archive
\* chosen by useGpu and by what the manifest publishes, packages and
\* models-turbo.
RequiredSetChosen ==
  archiveKeys # <<>> =>
    /\ Len(archiveKeys) = 4
    /\ archiveKeys[1] = "python-core"
    /\ archiveKeys[2] = (IF useGpu \/ "pytorch-cpu" \notin manifest
                         THEN "pytorch-nvidia-cu121" ELSE "pytorch-cpu")
    /\ archiveKeys[3] = "packages"
    /\ archiveKeys[4] = "models-turbo"

\* A run whose manifest lacks a required archive has failed on that, with no
\* archive started and no request made.
MissingArchiveFailsEarly ==
  (archiveKeys # <<>> /\ \E n \in 1..Len(archiveKeys) : archiveKeys[n] \notin manifest) =>
     /\ pc = "error"
     /\ run.failure.kind = "missing-archive"
     /\ run.started = <<>>
     /\ run.dlDone = {}
     /\ ~run.wroteMarker
     /\ req = NoReq

RangesInOrder ==
  /\ \A n \in 1..Len(archiveKeys) :
       /\ 0 <= Stage(archiveKeys[n]).pStart
       /\ Stage(archiveKeys[n]).pStart < Stage(archiveKeys[n]).pEnd
       /\ Stage(archiveKeys[n]).pEnd <= 100
  /\ \A n \in 1..(Len(archiveKeys) - 1) :
       Stage(archiveKeys[n]).pEnd <= Stage(archiveKeys[n + 1]).pStart

\* percent is the rounding of start + tenths/10 of the range.
AtTenthsOfRange(percent, st, tenths) ==
  LET exact10 == st.pStart * 10 + (st.pEnd - st.pStart) * tenths IN
    /\ 10 * percent - exact10 <= 5
    /\ exact10 - 10 * percent <= 5

\* C23: the sub-ranges are disjoint and ordered as the archives; of the
\* events of the archive in hand, a download event lies between the start
\* and start + 70% of its range, the verify event is at start + 70% (each
\* rounded to a whole percent), and the completion event, which follows the
\* extract event at once, is at the end.
C23_EventsWithinSubRange ==
  /\ RangesInOrder
  /\ (pc = "streaming" /\ prog.message = "downloading") =>
       /\ prog.pct >= Stage(req.key).pStart
       /\ 10 * prog.pct <=
            Stage(req.key).pStart * 10
              + (Stage(req.key).pEnd - Stage(req.key).pStart) * 7 + 5
  /\ (pc = "extract" /\ prog.message = "verifying") =>
       AtTenthsOfRange(prog.pct, Stage(req.key), 7)
  /\ (pc = "loop" /\ prog.message = "installed" /\ idx > 1) =>
       prog.pct = Stage(archiveKeys[idx - 1]).pEnd

\* The download in hand started on a .partial file of non-zero size smaller
\* than the declared size.
ResumablePartial ==
  /\ req.startPartial # NoFile
  /\ Len(req.startPartial) > 0
  /\ Len(req.startPartial) < DeclaredSize(req.key)

\* C24: a request carries Range: bytes=<startByte>- (req.range > 0) exactly
\* when the download started on a .partial file of non-zero size smaller
\* than the declared size, startByte being that size; a redirected request
\* carries the same header; on a 206 answer the bytes received are appended
\* to the .partial file, and a download interrupted after k bytes of the
\* source ends, after one answer of S - k bytes, with the source at destPath.
C24_RangeExactlyOnResume ==
  /\ [](req.network =>
          /\ req.range > 0 <=> ResumablePartial
          /\ req.range > 0 => req.range = Len(req.startPartial))
  /\ [][(pc = "request" /\ pc' = "request") =>
          (req'.range = req.range /\ req'.key = req.key)]_vars
  /\ []((pc = "streaming" /\ req.status = 206) =>
          /\ req.flags = "a"
          /\ partial[req.key] =
               req.startPartial \o SubSeq(req.served, req.range + 1, req.downloaded))
  /\ []((pc = "verify" /\ req.status = 206 /\ req.served = Source(req.key)
           /\ req.startPartial = SubSeq(Source(req.key), 1, req.range)) =>
          /\ dest[req.key] = Source(req.key)
          /\ req.downloaded - req.startByte = DeclaredSize(req.key) - req.range)

\* A resumed download whose request was redirected and then answered 206 has
\* resolved with the source at destPath.
C24_Witness ==
  /\ pc = "verify"
  /\ ResumablePartial
  /\ req.range = Len(req.startPartial)
  /\ req.hops > 0
  /\ req.status = 206
  /\ dest[req.key] = Source(req.key)

\* ------------------------------------------------- claims on makeRequest

\* C25: a download follows at most 5 redirects, so that it makes at most 6
\* requests, whatever the chain of redirects the server answers with.
C25_AtMostFiveHops ==
  /\ dl.hops <= 5
  /\ dl.requests <= 1 + 5

\* ------------------------------------------------ claims on the wizard

\* start-setup requests sent and not yet ended: waiting in main.js or
\* running.
RunsInFlight == wiz.outbox + wiz.active

\* C26: at most one runSetup call is in flight, and while one is in flight
\* the wizard does not offer the install action.
C26_OneRunAtATime ==
  /\ RunsInFlight <= 1
  /\ (RunsInFlight > 0 /\ wiz.pc = "mounted") => ~InstallShown(wiz.isInstalling)

\* ------------------------------------- claims on the supervisor, continued

\* The startBackend calls whose process has been spawned and has not exited.
LiveBackends == { i \in 1..Len(procs) : Alive(procs[i]) }

\* C27: at most one backend process is alive at any time, whatever the
\* order of restart-backend requests, restart timers and setup-complete.
C27_AtMostOneBackend == Cardinality(LiveBackends) <= 1

\* A step in which an exit handler sets its restart timer is the exit of a
\* process with a code other than 0, taken while the application is not
\* quitting.
RestartScheduledOnlyOnCrash ==
  \A i \in 1..Len(procs) :
    (procs'[i].timer /\ ~procs[i].timer) =>
       (~isQuitting /\ procs'[i].exit \in {"nonzero", "signal"})

\* Once before-quit has fired, no step starts a backend from a restart timer.
NoAutoStartWhileQuitting ==
  (isQuitting /\ Len(procs') > Len(procs)) => procs'[Len(procs')].by # "auto"

\* C28: the exit handler schedules no restart for an exit with code 0 or
\* while the application is quitting, and once before-quit has fired no
\* backend process is spawned by the exit handler.
C28_NoRestartOnCleanExitOrQuit ==
  [][RestartScheduledOnlyOnCrash /\ NoAutoStartWhileQuitting]_vars

\* The first of the two as a property of every step.
ScheduledOnlyOnCrash == [][RestartScheduledOnlyOnCrash]_vars

\* ------------------------------------- claims on the installer, continued

\* C29: a run during which abort() has not been called has the flag clear,
\* whatever the flag was when the run was started, and a run is cancelled
\* only when abort() was called during it.
C29_StaleAbortHasNoEffect ==
  /\ (Running /\ run.abortAt = -1) => ~aborted
  /\ run.failure.kind = "cancelled" => run.abortAt # -1

\* A run started with the flag set, by an abort() made while no run was
\* active, has completed without a call of abort().
C29_Witness ==
  /\ run.staleAbort
  /\ run.abortAt = -1
  /\ pc = "complete"
  /\ ~aborted

\* What a resolved download leaves at destPath: the .partial file it found
\* when that was already complete, else what it wrote, after the bytes it
\* kept of the .partial file when it appended.
DownloadResult ==
  IF ~req.network THEN req.startPartial
  ELSE IF req.flags = "a"
  THEN req.startPartial \o SubSeq(req.served, req.range + 1, Len(req.served))
  ELSE req.served

=============================================================================
